---- MODULE Spec2Model ----
(***************************************************************************)
(* Model of the concurrent geocode-and-merge pipeline of main.py.          *)
(*                                                                         *)
(* A dataframe is a sequence of rows; a row is a function from column      *)
(* names to cells.  A cell is a sequence: NaN is the empty sequence, a     *)
(* text cell is its sequence of characters, a number n is <<n>> and a      *)
(* serialized point f'POINT({x} {y})' is <<"POINT", x, y>>.                *)
(***************************************************************************)
EXTENDS Integers, Sequences, FiniteSets, Bags, TLC

(* Bounds of the model: rows of the input file, items of a service reply,
   rows beyond the pool size in the run that fills the pool. *)
MaxRows == 2
MaxFeatures == 3
PoolExtra == 1

(* ThreadPoolExecutor(max_workers=10) *)
max_workers == 10

NaN == <<>>

None == [is_none |-> TRUE, has_features |-> FALSE, features |-> <<>>]

Dict(has_features, features) ==
    [is_none |-> FALSE, has_features |-> has_features, features |-> features]

(***************************************************************************)
(* The input record sets read by pd.read_csv.                              *)
(***************************************************************************)
Addresses == << <<"R", "-", "A">>, <<"P", "/", "B">>, <<"P", "-", "/", "C">>, <<"R", "D">> >>

AddressOf(i) == Addresses[(i % Len(Addresses)) + 1]

(* A point already present in the input file for the row at position i. *)
InputGeom(i) == <<"POINT", 1000 + i, 2000 + i>>

InputRows(i) ==
    { [inscricao |-> <<100 + i>>, endereco |-> e, the_geom |-> g] :
        e \in {AddressOf(i), NaN}, g \in {NaN, InputGeom(i)} }

InputFrames ==
    UNION { { s \in [1..n -> UNION { InputRows(i) : i \in 0..(n - 1) }] :
                \A k \in 1..n : s[k] \in InputRows(k - 1) } : n \in 0..MaxRows }

(***************************************************************************)
(* Replies of the geocoding service.  The pair listed at position j of a   *)
(* reply is (LonAt(j), LatAt(j)).                                          *)
(***************************************************************************)
LonAt(j) == 0 - (50 + j)

LatAt(j) == 0 - (24 + 2 * j)

(* Provider A: {"geometry": {"coordinates": [lon, lat]}}. *)
GeoapifyFeature(j) == [has_geometry |-> TRUE, coordinates |-> <<LonAt(j), LatAt(j)>>]

(* Malformed features: a single coordinate, no geometry. *)
GeoapifyMalformed(j) ==
    { [has_geometry |-> TRUE, coordinates |-> <<LonAt(j)>>],
      [has_geometry |-> FALSE, coordinates |-> <<>>] }

(* Provider B: {"geometry": {"location": {"lat": .., "lng": ..}}}. *)
GoogleResult(j) ==
    [has_geometry |-> TRUE, has_lng |-> TRUE, lat |-> LatAt(j), lng |-> LonAt(j)]

(* Malformed results: a location without 'lng', no geometry or no location. *)
GoogleMalformed(j) ==
    { [has_geometry |-> TRUE, has_lng |-> FALSE, lat |-> LatAt(j), lng |-> 0],
      [has_geometry |-> FALSE, has_lng |-> FALSE, lat |-> 0, lng |-> 0] }

(* The lists of at most n items in which the item at position j is ok[j] or
   one of bad[j], with at most one malformed item in a list. *)
RECURSIVE ListsOf(_, _, _)
ListsOf(ok, bad, n) ==
    IF n = 0 THEN { <<>> }
    ELSE LET shorter == ListsOf(ok, bad, n - 1)
             longest == { t \in shorter : Len(t) = n - 1 }
         IN  shorter
               \cup { Append(s, ok[n]) : s \in longest }
               \cup { Append(s, x) : s \in { t \in longest : \A k \in 1..(n - 1) : t[k] = ok[k] },
                                     x \in bad[n] }

(* A decoded JSON body: the top-level collection ("features" / "results"),
   or a body without that key. *)
NoBody == [has_key |-> FALSE, items |-> <<>>]

Bodies(lists) == { [has_key |-> TRUE, items |-> s] : s \in lists } \cup { NoBody }

(* What requests.get / response.json() can do for one lookup: raise, answer
   with an error status, answer with a body that is not JSON, answer with JSON. *)
Replies(lists) ==
    { [raised |-> "ConnectionError", status_code |-> 0, json_ok |-> FALSE, body |-> NoBody],
      [raised |-> "", status_code |-> 500, json_ok |-> FALSE, body |-> NoBody],
      [raised |-> "", status_code |-> 200, json_ok |-> FALSE, body |-> NoBody] }
        \cup { [raised |-> "", status_code |-> 200, json_ok |-> TRUE, body |-> b] :
                 b \in Bodies(lists) }

GeoapifyReplies ==
    Replies(ListsOf([j \in 1..MaxFeatures |-> GeoapifyFeature(j)],
                    [j \in 1..MaxFeatures |-> GeoapifyMalformed(j)], MaxFeatures))

GoogleReplies ==
    Replies(ListsOf([j \in 1..MaxFeatures |-> GoogleResult(j)],
                    [j \in 1..MaxFeatures |-> GoogleMalformed(j)], MaxFeatures))

HttpReplies(api) == IF api = "google" THEN GoogleReplies ELSE GeoapifyReplies

NoReply == [raised |-> "", status_code |-> 0, json_ok |-> FALSE, body |-> NoBody]

(***************************************************************************)
(* Pure functions of main.py.                                              *)
(***************************************************************************)

(* transformer.transform(lon, lat): EPSG:4326 -> EPSG:31982 with always_xy,
   an injection of (lon, lat) whose easting follows the longitude and whose
   northing follows the latitude. *)
transform(lon, lat) == <<500 + 90 * (lon + 51), 10000 + 111 * lat>>

convert_lat_lon_to_UTM_swapped(lat, lon) ==
    <<"POINT", transform(lat, lon)[1], transform(lat, lon)[2]>>

convert_lat_lon_to_UTM(lat, lon) ==
    <<"POINT", transform(lon, lat)[1], transform(lon, lat)[2]>>

(* row._asdict() with the_geom replaced. *)
duplicate_row_with_new_UTM(row, coordinates) ==
    [row EXCEPT !.the_geom = convert_lat_lon_to_UTM(coordinates[2], coordinates[1])]

(* Lines 31-39: the loop over data['results'] from position j on; a result
   with a location that has no 'lng' raises KeyError. *)
RECURSIVE normalize_results(_, _)
normalize_results(results, j) ==
    IF j > Len(results) THEN [raised |-> "", features |-> <<>>]
    ELSE IF ~results[j].has_geometry THEN normalize_results(results, j + 1)
    ELSE IF ~results[j].has_lng THEN [raised |-> "KeyError", features |-> <<>>]
    ELSE LET rest == normalize_results(results, j + 1)
             feature == [has_geometry |-> TRUE,
                         coordinates |-> <<results[j].lng, results[j].lat>>]
         IN  [raised |-> rest.raised,
              features |-> IF rest.raised = "" THEN <<feature>> \o rest.features ELSE <<>>]

normalize_google_response_latlng(data) ==
    IF ~data.has_key \/ data.items = <<>> THEN [raised |-> "", value |-> None]
    ELSE LET n == normalize_results(data.items, 1)
         IN  [raised |-> n.raised,
              value |-> IF n.raised = "" THEN
                            Dict(TRUE, [k \in 1..Len(n.features) |->
                                [has_geometry |-> TRUE,
                                 coordinates |-> <<n.features[k].coordinates[2],
                                                   n.features[k].coordinates[1]>>]])
                        ELSE None]

normalize_google_response(data) ==
    IF ~data.has_key \/ data.items = <<>> THEN [raised |-> "", value |-> None]
    ELSE LET n == normalize_results(data.items, 1)
         IN  [raised |-> n.raised,
              value |-> IF n.raised = "" THEN Dict(TRUE, n.features) ELSE None]

FetchError(endereco) == [text |-> "Error fetching geocode for", endereco |-> endereco]

ProcessError(endereco) == [text |-> "Error processing", endereco |-> endereco]

(* fetch_geocode given what the service does for this lookup: the value
   returned and the lines printed. *)
fetch_geocode(endereco, api, http) ==
    IF http.raised # "" THEN
        [ret |-> None, printed |-> SetToBag({FetchError(endereco)})]
    ELSE IF http.status_code = 200 THEN
        IF ~http.json_ok THEN
            [ret |-> None, printed |-> SetToBag({FetchError(endereco)})]
        ELSE IF api = "google" THEN
            LET n == normalize_google_response(http.body)
            IN  IF n.raised # "" THEN
                    [ret |-> None, printed |-> SetToBag({FetchError(endereco)})]
                ELSE [ret |-> n.value, printed |-> EmptyBag]
        ELSE [ret |-> Dict(http.body.has_key, http.body.items), printed |-> EmptyBag]
    ELSE [ret |-> None, printed |-> EmptyBag]

(***************************************************************************)
(* Lines 85-88: the rows lacking geometry, each with its itertuples() row  *)
(* (the columns plus Index) and its query string.                          *)
(***************************************************************************)
isna(cell) == cell = NaN

(* str.replace(old, ''), scanning s from position k. *)
RECURSIVE replace(_, _, _)
replace(s, old, k) ==
    IF k > Len(s) THEN <<>>
    ELSE IF k + Len(old) - 1 <= Len(s) /\ SubSeq(s, k, k + Len(old) - 1) = old
         THEN replace(s, old, k + Len(old))
         ELSE <<s[k]>> \o replace(s, old, k + 1)

query_of(endereco) ==
    replace(replace(endereco, <<"-">>, 1), <<"P", "/">>, 1) \o <<" ", "PARANA">>

itertuple(frame, k) == ("Index" :> <<k - 1>>) @@ frame[k]

RECURSIVE prepare_all(_, _)
prepare_all(frame, k) ==
    IF k > Len(frame) THEN [raised |-> "", rows |-> <<>>]
    ELSE IF isna(frame[k].endereco) THEN [raised |-> "AttributeError", rows |-> <<>>]
    ELSE LET rest == prepare_all(frame, k + 1)
             entry == [row_idx |-> k - 1, row |-> itertuple(frame, k),
                       endereco |-> query_of(frame[k].endereco)]
         IN  [raised |-> rest.raised, rows |-> <<entry>> \o rest.rows]

(* The loop run over rows k..Len(frame): the tuples appended, and whether
   row.endereco.replace raised (endereco is a float NaN, not a str). *)
RECURSIVE prepare(_, _)
prepare(frame, k) ==
    IF k > Len(frame) THEN [raised |-> "", rows |-> <<>>]
    ELSE IF ~isna(frame[k].the_geom) THEN prepare(frame, k + 1)
    ELSE IF isna(frame[k].endereco) THEN [raised |-> "AttributeError", rows |-> <<>>]
    ELSE LET rest == prepare(frame, k + 1)
             entry == [row_idx |-> k - 1, row |-> itertuple(frame, k),
                       endereco |-> query_of(frame[k].endereco)]
         IN  [raised |-> rest.raised, rows |-> <<entry>> \o rest.rows]

(***************************************************************************)
(* Lines 104-110: the features of one result applied from position i on,   *)
(* until one raises.                                                       *)
(***************************************************************************)
RECURSIVE process_features_by_arrival(_, _, _, _, _)
process_features_by_arrival(features, i, entry, upd, rows) ==
    IF i > Len(features) THEN [raised |-> "", updates |-> upd, new_rows |-> rows]
    ELSE IF ~features[i].has_geometry THEN
        [raised |-> "AttributeError", updates |-> upd, new_rows |-> rows]
    ELSE IF Len(features[i].coordinates) < 2 THEN
        [raised |-> "IndexError", updates |-> upd, new_rows |-> rows]
    ELSE LET coordinates == features[i].coordinates
         IN  IF i = 1 THEN
                 process_features_by_arrival(features, i + 1, entry,
                     (Cardinality(DOMAIN upd) :>
                         convert_lat_lon_to_UTM(coordinates[2], coordinates[1])) @@ upd,
                     rows)
             ELSE
                 process_features_by_arrival(features, i + 1, entry, upd,
                     Append(rows, duplicate_row_with_new_UTM(entry.row, coordinates)))

process_features_atomic(features, i, entry, upd, rows) ==
    IF \E k \in i..Len(features) :
           ~features[k].has_geometry \/ Len(features[k].coordinates) < 2
    THEN [raised |-> "AttributeError", updates |-> upd, new_rows |-> rows]
    ELSE LET from == IF i > 2 THEN i ELSE 2
         IN  [raised |-> "",
              updates |-> IF i = 1 /\ Len(features) >= 1
                          THEN (entry.row_idx :>
                                   convert_lat_lon_to_UTM(features[1].coordinates[2],
                                                          features[1].coordinates[1])) @@ upd
                          ELSE upd,
              new_rows |-> rows \o
                  [k \in 1..(Len(features) - from + 1) |->
                      duplicate_row_with_new_UTM(entry.row,
                                                 features[k + from - 1].coordinates)]]

RECURSIVE process_features_feature_key(_, _, _, _, _)
process_features_feature_key(features, i, entry, upd, rows) ==
    IF i > Len(features) THEN [raised |-> "", updates |-> upd, new_rows |-> rows]
    ELSE IF ~features[i].has_geometry THEN
        [raised |-> "AttributeError", updates |-> upd, new_rows |-> rows]
    ELSE IF Len(features[i].coordinates) < 2 THEN
        [raised |-> "IndexError", updates |-> upd, new_rows |-> rows]
    ELSE LET coordinates == features[i].coordinates
         IN  IF i = 1 THEN
                 process_features_feature_key(features, i + 1, entry,
                     ((i - 1) :> convert_lat_lon_to_UTM(coordinates[2], coordinates[1]))
                         @@ upd,
                     rows)
             ELSE
                 process_features_feature_key(features, i + 1, entry, upd,
                     Append(rows, duplicate_row_with_new_UTM(entry.row, coordinates)))

RECURSIVE process_features(_, _, _, _, _)
process_features(features, i, entry, upd, rows) ==
    IF i > Len(features) THEN [raised |-> "", updates |-> upd, new_rows |-> rows]
    ELSE IF ~features[i].has_geometry THEN
        [raised |-> "AttributeError", updates |-> upd, new_rows |-> rows]
    ELSE IF Len(features[i].coordinates) < 2 THEN
        [raised |-> "IndexError", updates |-> upd, new_rows |-> rows]
    ELSE LET coordinates == features[i].coordinates
         IN  IF i = 1 THEN
                 process_features(features, i + 1, entry,
                     (entry.row_idx :> convert_lat_lon_to_UTM(coordinates[2], coordinates[1]))
                         @@ upd,
                     rows)
             ELSE
                 process_features(features, i + 1, entry, upd,
                     Append(rows, duplicate_row_with_new_UTM(entry.row, coordinates)))

(* Lines 101-112 for one completed future. *)
merge_one(entry, data, upd, rows) ==
    IF data.is_none THEN [updates |-> upd, new_rows |-> rows, printed |-> EmptyBag]
    ELSE LET p == process_features(IF data.has_features THEN data.features ELSE <<>>,
                                   1, entry, upd, rows)
         IN  [updates |-> p.updates, new_rows |-> p.new_rows,
              printed |-> IF p.raised # "" THEN SetToBag({ProcessError(entry.endereco)})
                          ELSE EmptyBag]

apply_updates_off_by_one(frame, upd) ==
    [k \in 1..Len(frame) |->
        IF (k - 2) \in DOMAIN upd THEN [frame[k] EXCEPT !.the_geom = upd[k - 2]]
        ELSE frame[k]]

(* Lines 115-116: df.at[row_idx, 'the_geom'] = utm for every update. *)
apply_updates(frame, upd) ==
    [k \in 1..Len(frame) |->
        IF (k - 1) \in DOMAIN upd THEN [frame[k] EXCEPT !.the_geom = upd[k - 1]]
        ELSE frame[k]]

(* pd.concat([df, pd.DataFrame(new_rows)], ignore_index=True): the columns
   are the union of both frames' columns, absent cells are NaN. *)
columns(frame) == UNION { DOMAIN frame[k] : k \in 1..Len(frame) }

reindex(frame, cols) ==
    [k \in 1..Len(frame) |->
        [c \in cols |-> IF c \in DOMAIN frame[k] THEN frame[k][c] ELSE NaN]]

concat_prepend(frame, rows) ==
    LET cols == columns(frame) \cup columns(rows)
    IN  reindex(rows, cols) \o reindex(frame, cols)

concat(frame, rows) ==
    LET cols == columns(frame) \cup columns(rows)
    IN  reindex(frame, cols) \o reindex(rows, cols)

(***************************************************************************)
(* State of one run of main.py.                                            *)
(***************************************************************************)
VARIABLES
    api_type,         \* args.api
    input,            \* the frame as read from the input file
    df,               \* the dataframe
    rows_to_process,  \* list of (row_idx, row, endereco)
    futures,          \* the submitted futures, in submission order
    consumed,         \* the futures as_completed has yielded so far
    updates,          \* dict row_idx -> point
    new_rows,         \* list of cloned rows
    diagnostics,      \* bag of the error lines printed
    output,           \* the file written by df.to_csv
    pc                \* where the main thread is

vars == <<api_type, input, df, rows_to_process, futures, consumed, updates,
          new_rows, diagnostics, output, pc>>

NoFile == [written |-> FALSE, frame |-> <<>>]

EmptyDict == [k \in {} |-> NaN]

InitWith(apis, frames) ==
    /\ api_type \in apis
    /\ input \in frames
    /\ df = input
    /\ rows_to_process = <<>>
    /\ futures = <<>>
    /\ consumed = {}
    /\ updates = EmptyDict
    /\ new_rows = <<>>
    /\ diagnostics = EmptyBag
    /\ output = NoFile
    /\ pc = "prepare"

Init == InitWith({"geoapify", "google"}, InputFrames)

(* Lines 84-88. An exception here is not caught: the run ends. *)
Prepare ==
    /\ pc = "prepare"
    /\ LET p == prepare(df, 1)
       IN  /\ rows_to_process' = p.rows
           /\ pc' = IF p.raised # "" THEN "aborted" ELSE "submit"
    /\ UNCHANGED <<api_type, input, df, futures, consumed, updates, new_rows,
                   diagnostics, output>>

(* Line 97: executor.submit for the next entry of rows_to_process. *)
Submit ==
    /\ pc = "submit"
    /\ Len(futures) < Len(rows_to_process)
    /\ futures' = Append(futures, [status |-> "pending", http |-> NoReply, result |-> None])
    /\ UNCHANGED <<api_type, input, df, rows_to_process, consumed, updates, new_rows,
                   diagnostics, output, pc>>

(* Line 100: every entry is submitted, the as_completed loop begins. *)
AsCompleted ==
    /\ pc = "submit"
    /\ Len(futures) = Len(rows_to_process)
    /\ pc' = "merge"
    /\ UNCHANGED <<api_type, input, df, rows_to_process, futures, consumed, updates,
                   new_rows, diagnostics, output>>

InFlight == { f \in DOMAIN futures : futures[f].status \in {"running", "hung"} }

SlotFreeUnbounded == TRUE

SlotFree == Cardinality(InFlight) < max_workers

(* A pool worker takes the oldest queued work item. *)
Start(f) ==
    /\ f \in DOMAIN futures
    /\ futures[f].status = "pending"
    /\ \A g \in 1..(f - 1) : futures[g].status # "pending"
    /\ SlotFree
    /\ futures' = [futures EXCEPT ![f].status = "running"]
    /\ UNCHANGED <<api_type, input, df, rows_to_process, consumed, updates, new_rows,
                   diagnostics, output, pc>>

Finish_applying(f, http) ==
    /\ f \in DOMAIN futures
    /\ futures[f].status = "running"
    /\ LET r == fetch_geocode(rows_to_process[f].endereco, api_type, http)
       IN  /\ futures' = [futures EXCEPT ![f] =
                            [status |-> "done", http |-> http, result |-> r.ret]]
           /\ diagnostics' = diagnostics (+) r.printed
           /\ updates' = merge_one(rows_to_process[f], r.ret, updates, new_rows).updates
    /\ UNCHANGED <<api_type, input, df, rows_to_process, consumed, new_rows, output, pc>>

(* Lines 50-66 in a worker: the call returns, http being what the service did. *)
Finish(f, http) ==
    /\ f \in DOMAIN futures
    /\ futures[f].status = "running"
    /\ LET r == fetch_geocode(rows_to_process[f].endereco, api_type, http)
       IN  /\ futures' = [futures EXCEPT ![f] =
                            [status |-> "done", http |-> http, result |-> r.ret]]
           /\ diagnostics' = diagnostics (+) r.printed
    /\ UNCHANGED <<api_type, input, df, rows_to_process, consumed, updates, new_rows,
                   output, pc>>

(* Line 56: requests.get has no timeout, the call may never return. *)
Hang(f) ==
    /\ f \in DOMAIN futures
    /\ futures[f].status = "running"
    /\ futures' = [futures EXCEPT ![f].status = "hung"]
    /\ UNCHANGED <<api_type, input, df, rows_to_process, consumed, updates, new_rows,
                   diagnostics, output, pc>>

Merge_after_all(f) ==
    /\ pc = "merge"
    /\ f \in DOMAIN futures
    /\ \A g \in DOMAIN futures : futures[g].status = "done"
    /\ f \notin consumed
    /\ LET m == merge_one(rows_to_process[f], futures[f].result, updates, new_rows)
       IN  /\ updates' = m.updates
           /\ new_rows' = m.new_rows
           /\ diagnostics' = diagnostics (+) m.printed
    /\ consumed' = consumed \cup {f}
    /\ UNCHANGED <<api_type, input, df, rows_to_process, futures, output, pc>>

(* Lines 100-112 for the next future as_completed yields. *)
Merge(f) ==
    /\ pc = "merge"
    /\ f \in DOMAIN futures
    /\ futures[f].status = "done"
    /\ f \notin consumed
    /\ LET m == merge_one(rows_to_process[f], futures[f].result, updates, new_rows)
       IN  /\ updates' = m.updates
           /\ new_rows' = m.new_rows
           /\ diagnostics' = diagnostics (+) m.printed
    /\ consumed' = consumed \cup {f}
    /\ UNCHANGED <<api_type, input, df, rows_to_process, futures, output, pc>>

ApplyUpdates_early ==
    /\ pc = "merge"
    /\ df' = apply_updates(df, updates)
    /\ pc' = "concat"
    /\ UNCHANGED <<api_type, input, rows_to_process, futures, consumed, updates,
                   new_rows, diagnostics, output>>

(* as_completed is exhausted and the pool shut down; lines 115-116. *)
ApplyUpdates ==
    /\ pc = "merge"
    /\ consumed = DOMAIN rows_to_process
    /\ df' = apply_updates(df, updates)
    /\ pc' = "concat"
    /\ UNCHANGED <<api_type, input, rows_to_process, futures, consumed, updates,
                   new_rows, diagnostics, output>>

(* Lines 119-120. *)
Concat ==
    /\ pc = "concat"
    /\ df' = IF new_rows # <<>> THEN concat(df, new_rows) ELSE df
    /\ pc' = "write"
    /\ UNCHANGED <<api_type, input, rows_to_process, futures, consumed, updates,
                   new_rows, diagnostics, output>>

(* Lines 123-129. *)
Write ==
    /\ pc = "write"
    /\ output' = [written |-> TRUE, frame |-> df]
    /\ pc' = "written"
    /\ UNCHANGED <<api_type, input, df, rows_to_process, futures, consumed, updates,
                   new_rows, diagnostics>>

Next ==
    \/ Prepare
    \/ Submit
    \/ AsCompleted
    \/ \E f \in 1..Len(futures) : Start(f)
    \/ \E f \in 1..Len(futures) : \E http \in HttpReplies(api_type) : Finish(f, http)
    \/ \E f \in 1..Len(futures) : Hang(f)
    \/ \E f \in 1..Len(futures) : Merge(f)
    \/ ApplyUpdates
    \/ Concat
    \/ Write

Spec == Init /\ [][Next]_vars

(* Every step that can be taken eventually is, except that a lookup is free
   to hang. *)
Fairness ==
    /\ WF_vars(Prepare)
    /\ WF_vars(Submit)
    /\ WF_vars(AsCompleted)
    /\ \A f \in 1..MaxRows : WF_vars(Start(f))
    /\ \A f \in 1..MaxRows : WF_vars(\E http \in HttpReplies(api_type) : Finish(f, http))
    /\ \A f \in 1..MaxRows : WF_vars(Merge(f))
    /\ WF_vars(ApplyUpdates)
    /\ WF_vars(Concat)
    /\ WF_vars(Write)

FairSpec == Spec /\ Fairness

(***************************************************************************)
(* A run with more rows to geocode than the pool has workers, against a    *)
(* service that refuses every connection.                                  *)
(***************************************************************************)
PoolFrame ==
    [k \in 1..(max_workers + PoolExtra) |->
        [inscricao |-> <<100 + k - 1>>, endereco |-> AddressOf(k - 1), the_geom |-> NaN]]

ConnectionRefused ==
    [raised |-> "ConnectionError", status_code |-> 0, json_ok |-> FALSE, body |-> NoBody]

InitPool == InitWith({"geoapify"}, {PoolFrame})

NextPool ==
    \/ Prepare
    \/ Submit
    \/ AsCompleted
    \/ \E f \in 1..Len(futures) : Start(f)
    \/ \E f \in 1..Len(futures) : Finish(f, ConnectionRefused)
    \/ \E f \in 1..Len(futures) : Merge(f)
    \/ ApplyUpdates
    \/ Concat
    \/ Write

PoolSpec == InitPool /\ [][NextPool]_vars

(***************************************************************************)
(* Vocabulary of the properties.                                           *)
(***************************************************************************)
Eligible == { k \in 1..Len(input) : isna(input[k].the_geom) }

(* The coordinate pairs of a GeocodeResult. *)
Pairs(data) == IF data.is_none \/ ~data.has_features THEN <<>> ELSE data.features

WellFormed(feature) == feature.has_geometry /\ Len(feature.coordinates) = 2

AllWellFormed(data) == \A i \in 1..Len(Pairs(data)) : WellFormed(Pairs(data)[i])

(* The point of a pair whose first element is the longitude. *)
Reprojection(pair) == <<"POINT", transform(pair[1], pair[2])[1], transform(pair[1], pair[2])[2]>>

(* The output row at the position of the record future f was dispatched for. *)
OutRow(f) == output.frame[rows_to_process[f].row_idx + 1]

Appended == SubSeq(output.frame, Len(input) + 1, Len(output.frame))

(* The rows appended to the output that were cloned for future f, in order. *)
ClonesOf(f) ==
    LET FromF(r) == r.Index = <<rows_to_process[f].row_idx>>
    IN  SelectSeq(Appended, FromF)

(* C1: a record whose geometry is non-empty in the input is never turned into
   a query, never the target of an in-place update, and appears in the output
   with the same attributes and the same values. *)
C1_PreResolvedUntouched ==
    \A k \in 1..Len(input) :
        ~isna(input[k].the_geom) =>
            /\ \A f \in DOMAIN rows_to_process : rows_to_process[f].row_idx # k - 1
            /\ (k - 1) \notin DOMAIN updates
            /\ output.written => output.frame[k] = input[k]

(* C2: after the run, a query whose result holds k >= 1 well-formed pairs has
   its record's geometry equal to the reprojection of the first pair (first
   element longitude, second latitude), and the output holds exactly k - 1 new
   rows for it, the j-th carrying the reprojection of pair j + 1. *)
C2_FirstUpdatesRestAppended ==
    output.written =>
        \A f \in DOMAIN futures :
            LET pairs == Pairs(futures[f].result)
            IN  (Len(pairs) >= 1 /\ AllWellFormed(futures[f].result)) =>
                    /\ OutRow(f).the_geom = Reprojection(pairs[1].coordinates)
                    /\ Len(ClonesOf(f)) = Len(pairs) - 1
                    /\ \A j \in 1..(Len(pairs) - 1) :
                          ClonesOf(f)[j].the_geom = Reprojection(pairs[j + 1].coordinates)

C2_Witness ==
    /\ output.written
    /\ \E f \in DOMAIN futures :
          /\ Len(Pairs(futures[f].result)) = MaxFeatures
          /\ AllWellFormed(futures[f].result)
          /\ Len(output.frame) = Len(input) + MaxFeatures - 1

(* C3: every new row has exactly the attributes of the original input record
   and the same value in each attribute other than geometry, so the output
   keeps the columns of the input. *)
C3_CloneKeepsAttributes ==
    output.written =>
        /\ columns(output.frame) = columns(input)
        /\ \A p \in (Len(input) + 1)..Len(output.frame) :
              \E k \in 1..Len(input) :
                  /\ DOMAIN output.frame[p] = DOMAIN input[k]
                  /\ \A a \in DOMAIN input[k] \ {"the_geom"} :
                        output.frame[p][a] = input[k][a]

(* C4: after the run, a query whose result is empty, because the lookup failed
   or because the reply held no location, has no update recorded, its record's
   geometry still missing and its other cells as read, and no new row. *)
C4_EmptyResultLeavesRecord ==
    output.written =>
        \A f \in DOMAIN futures :
            Len(Pairs(futures[f].result)) = 0 =>
                /\ rows_to_process[f].row_idx \notin DOMAIN updates
                /\ isna(OutRow(f).the_geom)
                /\ \A a \in DOMAIN input[rows_to_process[f].row_idx + 1] :
                      OutRow(f)[a] = input[rows_to_process[f].row_idx + 1][a]
                /\ ClonesOf(f) = <<>>

C4_Witness ==
    /\ output.written
    /\ \E f, g \in DOMAIN futures :
          /\ futures[f].result.is_none
          /\ futures[f].http.raised # ""
          /\ ~futures[g].result.is_none
          /\ Len(Pairs(futures[g].result)) = 0

(* The lookups that failed in transport by raising: connection error,
   timeout, a body that does not decode. *)
RaisedInTransport(http) == http.raised # "" \/ (http.status_code = 200 /\ ~http.json_ok)

ErrorStatus(http) == http.raised = "" /\ http.status_code # 200

(* C5: every transport failure of a lookup, a non-success status included,
   returns an empty result without raising, prints a diagnostic naming the
   query, and does not end the run. *)
C5_EveryFailureDiagnosed ==
    \A f \in DOMAIN futures :
        (futures[f].status = "done"
            /\ (RaisedInTransport(futures[f].http) \/ ErrorStatus(futures[f].http))) =>
                /\ futures[f].result = None
                /\ BagIn(FetchError(rows_to_process[f].endereco), diagnostics)
                /\ pc # "aborted"

(* C6: no error in the resolution of a single address ends the run. *)
C6_NoAddressAbortsRun == pc # "aborted"

Hung == { f \in DOMAIN futures : futures[f].status = "hung" }

FuturesOf(k) == { f \in DOMAIN futures : rows_to_process[f].row_idx = k - 1 }

(* C7: each record lacking geometry is dispatched exactly once, and unless a
   lookup hangs its result is eventually consumed by the merge loop. *)
C7_DispatchedAndConsumedOnce ==
    /\ [](\A k \in Eligible : Cardinality(FuturesOf(k)) <= 1)
    /\ <>(\/ Hung # {}
          \/ \A k \in Eligible :
                /\ Cardinality(FuturesOf(k)) = 1
                /\ FuturesOf(k) \subseteq consumed)

(* C8: at most max_workers lookups are in flight at any time. *)
C8_AtMostTenInFlight == Cardinality(InFlight) <= max_workers

(* The pool is full again after a slot was released to a query that waited. *)
C8_Witness ==
    /\ Len(futures) > max_workers
    /\ futures[max_workers + 1].status = "running"
    /\ Cardinality(InFlight) = max_workers

ItemOk(x) ==
    x.has_geometry /\ (IF "coordinates" \in DOMAIN x THEN Len(x.coordinates) = 2 ELSE x.has_lng)

MalformedContainer(body) ==
    ~body.has_key \/ body.items = <<>> \/ \E i \in 1..Len(body.items) : ~ItemOk(body.items[i])

(* C9: after the run, a query answered with a missing or malformed container
   has its record's geometry unresolved and no new row. *)
C9_MalformedLeavesRecordUnresolved ==
    output.written =>
        \A f \in DOMAIN futures :
            (futures[f].http.json_ok /\ MalformedContainer(futures[f].http.body)) =>
                /\ isna(OutRow(f).the_geom)
                /\ ClonesOf(f) = <<>>

(* The Provider A reply listing the locations of a Provider B reply in the
   same order. *)
SameLocations(http) ==
    [http EXCEPT !.body.items =
        [i \in 1..Len(http.body.items) |->
            [has_geometry |-> TRUE,
             coordinates |-> <<http.body.items[i].lng, http.body.items[i].lat>>]]]

AllResultsOk(http) ==
    /\ http.json_ok
    /\ http.body.has_key
    /\ \A i \in 1..Len(http.body.items) : ItemOk(http.body.items[i])

(* What merging the Provider A reply with the same locations records for the
   record of future f. *)
AsGeoapify(f) ==
    merge_one(rows_to_process[f],
              fetch_geocode(rows_to_process[f].endereco, "geoapify",
                            SameLocations(futures[f].http)).ret,
              EmptyDict, <<>>)

(* C10: a Provider B reply of n well-formed results is normalized to n pairs,
   the i-th being (lng, lat) of the i-th result, and the record and the new
   rows it leads to are those the Provider A reply listing the same locations
   leads to. *)
C10_GoogleMatchesGeoapify ==
    \A f \in DOMAIN futures :
        (api_type = "google" /\ futures[f].status = "done" /\ AllResultsOk(futures[f].http)) =>
            LET results == futures[f].http.body.items
                pairs == Pairs(futures[f].result)
            IN  /\ Len(pairs) = Len(results)
                /\ \A i \in 1..Len(results) :
                      pairs[i].coordinates = <<results[i].lng, results[i].lat>>
                /\ output.written =>
                      /\ ClonesOf(f) = AsGeoapify(f).new_rows
                      /\ OutRow(f).the_geom =
                            IF rows_to_process[f].row_idx \in DOMAIN AsGeoapify(f).updates
                            THEN AsGeoapify(f).updates[rows_to_process[f].row_idx]
                            ELSE NaN

C10_Witness ==
    /\ api_type = "google"
    /\ output.written
    /\ \E f \in DOMAIN futures :
          /\ AllResultsOk(futures[f].http)
          /\ Len(futures[f].http.body.items) = MaxFeatures
          /\ Len(ClonesOf(f)) = MaxFeatures - 1

(* What merging the result of future f records when it is the only one. *)
Alone(f) == merge_one(rows_to_process[f], futures[f].result, EmptyDict, <<>>)

(* The geometry written for the record of future f. *)
GeomFrom(f, m) ==
    IF rows_to_process[f].row_idx \in DOMAIN m.updates
    THEN m.updates[rows_to_process[f].row_idx]
    ELSE input[rows_to_process[f].row_idx + 1].the_geom

(* C11: after the run, the geometry of every record and the rows appended are
   those the lookup results determine record by record, whatever the order in
   which the results completed and were merged: each record lacking geometry
   holds what its own result gives, the rows cloned for it are those of its
   own result, and every appended row is a clone for some dispatched record. *)
C11_OrderIndependent ==
    output.written =>
        /\ \A f \in DOMAIN futures :
              /\ OutRow(f).the_geom = GeomFrom(f, Alone(f))
              /\ ClonesOf(f) = Alone(f).new_rows
        /\ \A k \in 1..Len(input) :
              ~isna(input[k].the_geom) => output.frame[k].the_geom = input[k].the_geom
        /\ \A p \in 1..Len(Appended) :
              \E f \in DOMAIN futures : Appended[p].Index = <<rows_to_process[f].row_idx>>

(* Two results with clones, merged in the order opposite to submission. *)
C11_Witness ==
    /\ output.written
    /\ \E f, g \in DOMAIN futures :
          /\ f < g
          /\ Alone(f).new_rows # <<>>
          /\ Alone(g).new_rows # <<>>
          /\ new_rows[1].Index = <<rows_to_process[g].row_idx>>

(* A step of a pool worker: a submitted future changes. *)
WorkerStep == \E f \in DOMAIN futures : futures'[f] # futures[f]

(* C12: no step of a pool worker changes the record set, the pending updates,
   the new-row accumulator or the output; only steps of the main thread do. *)
C12_OnlyOrchestratorWrites ==
    [][WorkerStep => UNCHANGED <<df, updates, new_rows, output>>]_vars

(* A lookup in flight while the main thread has already recorded results. *)
C12_Witness ==
    /\ pc = "merge"
    /\ updates # EmptyDict
    /\ new_rows # <<>>
    /\ \E f \in DOMAIN futures : futures[f].status = "done" /\ f \notin consumed

(* The update and the clones of future g are in the accumulators. *)
Recorded(g) ==
    /\ g \in consumed
    /\ \A idx \in DOMAIN Alone(g).updates :
          idx \in DOMAIN updates /\ updates[idx] = Alone(g).updates[idx]
    /\ LET FromG(r) == r.Index = <<rows_to_process[g].row_idx>>
       IN  SelectSeq(new_rows, FromG) = Alone(g).new_rows

(* C13: while a lookup hangs, every other lookup that returns is eventually
   merged, its update and clones recorded; the hung lookup stays hung and in
   flight, holding its pool slot, in every later state. *)
C13_HangDoesNotBlockOthers ==
    /\ \A g \in 1..MaxRows :
          (Hung # {} /\ g \in DOMAIN futures /\ futures[g].status = "done") ~> Recorded(g)
    /\ [][\A f \in Hung : f \in Hung' /\ f \in InFlight']_vars

C13_Witness ==
    /\ Hung # {}
    /\ \E g \in DOMAIN futures :
          /\ Recorded(g)
          /\ Alone(g).updates # EmptyDict
          /\ Alone(g).new_rows # <<>>

(* C14: the output is written only when every entry of rows_to_process has a
   future that is done and whose result the merge loop has consumed; none is
   pending, running or hung. *)
C14_WrittenAfterDrain ==
    output.written =>
        /\ DOMAIN futures = DOMAIN rows_to_process
        /\ \A f \in DOMAIN futures : futures[f].status = "done" /\ f \in consumed
        /\ InFlight = {}

C14_Witness ==
    /\ output.written
    /\ Len(futures) = MaxRows
    /\ updates # EmptyDict

(* C15: the dataframe keeps its rows as read until the merge loop is over;
   before any row is appended every recorded update is visible in its row; the
   cloned rows are appended after the existing rows, which keep their
   positions and the cells of the attributes they were read with. *)
C15_UpdatesBeforeAppend ==
    /\ pc \in {"prepare", "submit", "merge", "aborted"} => df = input
    /\ pc = "concat" =>
          /\ Len(df) = Len(input)
          /\ \A idx \in DOMAIN updates : df[idx + 1].the_geom = updates[idx]
    /\ pc \in {"write", "written"} =>
          /\ Len(df) = Len(input) + Len(new_rows)
          /\ \A k \in 1..Len(input) : \A a \in DOMAIN input[k] :
                df[k][a] = IF a = "the_geom" /\ (k - 1) \in DOMAIN updates
                           THEN updates[k - 1] ELSE input[k][a]
          /\ \A j \in 1..Len(new_rows) : df[Len(input) + j] = new_rows[j]

C15_Witness ==
    /\ pc = "written"
    /\ Len(new_rows) >= 1
    /\ \E idx \in DOMAIN updates : idx + 1 < Len(input)

(* C16: when every record of the input has geometry, nothing is dispatched
   and the output written equals the input. *)
C16_ResolvedInputIsNoOp ==
    Eligible = {} =>
        /\ rows_to_process = <<>>
        /\ futures = <<>>
        /\ pc # "aborted"
        /\ output.written => output.frame = input

C16_Witness ==
    /\ Eligible = {}
    /\ Len(input) = MaxRows
    /\ output.written

(* Processing this pair raises: feature.get('geometry') is None, or the
   coordinates hold fewer than two numbers. *)
Raises(feature) == ~feature.has_geometry \/ Len(feature.coordinates) < 2

(* The positions (from 1) of the pairs of future f's result that raise. *)
RaisingAt(f) ==
    { i \in 1..Len(Pairs(futures[f].result)) : Raises(Pairs(futures[f].result)[i]) }

FirstRaising(f) == CHOOSE j \in RaisingAt(f) : \A i \in RaisingAt(f) : j <= i

(* C17: when the pair at position j of a record's result raises, the update
   from the first pair and the clones from the pairs before j are kept, no
   pair from j on is applied, a diagnostic naming the query is emitted, and
   what is recorded for every other record is what its own result gives. *)
C17_PairByPairNotAtomic ==
    output.written =>
        \A f \in DOMAIN futures :
            RaisingAt(f) # {} =>
                LET ps == Pairs(futures[f].result)
                    j  == FirstRaising(f)
                IN  /\ IF j = 1 THEN isna(OutRow(f).the_geom)
                       ELSE OutRow(f).the_geom = Reprojection(ps[1].coordinates)
                    /\ ClonesOf(f) =
                          [i \in 1..(j - 2) |->
                              duplicate_row_with_new_UTM(rows_to_process[f].row,
                                                         ps[i + 1].coordinates)]
                    /\ CopiesIn(ProcessError(rows_to_process[f].endereco), diagnostics) >= 1
                    /\ \A g \in DOMAIN futures \ {f} :
                          /\ OutRow(g).the_geom = GeomFrom(g, Alone(g))
                          /\ ClonesOf(g) = Alone(g).new_rows

C17_Witness ==
    /\ output.written
    /\ \E f \in DOMAIN futures :
          /\ RaisingAt(f) # {}
          /\ FirstRaising(f) = MaxFeatures
          /\ ~isna(OutRow(f).the_geom)
          /\ Len(ClonesOf(f)) = MaxFeatures - 2
          /\ \E g \in DOMAIN futures \ {f} : Alone(g).new_rows # <<>>

(* The identifiers of the records a lookup was dispatched for. *)
Dispatched == { rows_to_process[f].row_idx : f \in DOMAIN futures }

(* C18: every pending update is for a dispatched record, every dispatched
   record had no geometry in the input, every accumulated new row is the
   clone of a dispatched record, and no row is ever removed: the output has
   as many rows as the input plus the accumulated new rows. *)
C18_UpdatesAndRowsFromDispatched ==
    /\ DOMAIN updates \subseteq Dispatched
    /\ Dispatched \subseteq { k - 1 : k \in Eligible }
    /\ \A j \in 1..Len(new_rows) :
          \E idx \in Dispatched :
              /\ new_rows[j].Index = <<idx>>
              /\ \A a \in DOMAIN input[idx + 1] \ {"the_geom"} :
                    new_rows[j][a] = input[idx + 1][a]
    /\ Len(df) >= Len(input)
    /\ output.written => Len(output.frame) = Len(input) + Len(new_rows)

C18_Witness ==
    /\ output.written
    /\ Len(new_rows) >= MaxFeatures - 1
    /\ DOMAIN updates = {MaxRows - 1}
    /\ Eligible = {MaxRows}

====
